---- MODULE Spec2Model ----
(***************************************************************************)
(* Model of TelebotUrEdu.py: a Flask webhook that relays a Telegram chat   *)
(* message to the Blogger posts API (exact label search, then a fuzzy      *)
(* fallback over every post) and sends the matches back to the chat.       *)
(*                                                                         *)
(* Line 50 of the source lacks the closing parenthesis of the `if`         *)
(* condition; the model reads it as                                        *)
(*   if (keyword in " ".join(post_labels)                                  *)
(*       or get_close_matches(keyword, post_labels, n=1, cutoff=0.6)):     *)
(*                                                                         *)
(* Strings that the code inspects (message text, labels, keyword) are      *)
(* sequences of one-character strings.  JSON values are tagged records.    *)
(***************************************************************************)
EXTENDS Integers, Sequences, FiniteSets, TLC

VARIABLES
    pc,          \* position of the running webhook_handler invocation
    update,      \* the inbound request body of the invocation
    chat_known,  \* 'chat_id' in locals()
    chat_id,     \* local chat_id
    keyword,     \* local keyword
    posts,       \* local posts
    idx,         \* number of iterations of the delivery loop completed
    sent,        \* send_to_telegram calls of the invocation, in order
    lastOk,      \* value returned by the latest send_to_telegram call
    searches,    \* search_blogger_posts calls of the invocation, in order
    status,      \* HTTP status of the response (0 while running)
    exactMemo,   \* what the remote API answers to the label query
    allMemo,     \* what the remote API answers to the all-posts query
    prev,        \* the previous invocation: its body, calls and status
    inv,         \* number of invocations started
    call         \* a direct call of search_blogger_posts(keyword, False)

vars == <<pc, update, chat_known, chat_id, keyword, posts, idx, sent, lastOk,
          searches, status, exactMemo, allMemo, prev, inv, call>>

----------------------------------------------------------------------------
(* Bounds *)

MaxHead == 2          \* freely chosen leading items of a remote item list
MaxPad == 4           \* well-formed items that may follow them
MaxInvocations == 2   \* handler invocations in one behaviour
MaxCallItems == 4     \* items of the collection in a direct fuzzy call

(* Program constants *)

MaxResults == 5       \* posts[:5]
CutoffNum == 3        \* cutoff=0.6 as the fraction 3/5
CutoffDen == 5

----------------------------------------------------------------------------
(* Python string operations on sequences of characters *)

LowerChar(c) == IF c = "A" THEN "a" ELSE IF c = "B" THEN "b" ELSE c

Lower(s) == [i \in 1..Len(s) |-> LowerChar(s[i])]

IsSpace(c) == c = " "

Strip(s) ==
    LET keep == {i \in 1..Len(s) : ~IsSpace(s[i])}
    IN  IF keep = {} THEN <<>>
        ELSE LET lo == CHOOSE i \in keep : \A j \in keep : i <= j
                 hi == CHOOSE i \in keep : \A j \in keep : j <= i
             IN  SubSeq(s, lo, hi)

\* sub in s
Contains(sub, s) ==
    \E i \in 0..(Len(s) - Len(sub)) : SubSeq(s, i + 1, i + Len(sub)) = sub

RECURSIVE Join(_)
\* " ".join(strs)
Join(strs) ==
    IF Len(strs) = 0 THEN <<>>
    ELSE IF Len(strs) = 1 THEN strs[1]
    ELSE strs[1] \o <<" ">> \o Join(Tail(strs))

----------------------------------------------------------------------------
(* difflib: SequenceMatcher(None, a, b).ratio() and get_close_matches *)

\* the matching blocks a[i..i+k-1] = b[j..j+k-1] with k >= 1
Blocks(a, b) ==
    {t \in (1..Len(a)) \X (1..Len(b)) \X (1..Len(a)) :
        /\ t[1] + t[3] - 1 <= Len(a)
        /\ t[2] + t[3] - 1 <= Len(b)
        /\ SubSeq(a, t[1], t[1] + t[3] - 1) = SubSeq(b, t[2], t[2] + t[3] - 1)}

\* find_longest_match: longest, then earliest in a, then earliest in b
LongestMatch(a, b) ==
    CHOOSE t \in Blocks(a, b) : \A o \in Blocks(a, b) :
        \/ t[3] > o[3]
        \/ t[3] = o[3] /\ t[1] < o[1]
        \/ t[3] = o[3] /\ t[1] = o[1] /\ t[2] <= o[2]

RECURSIVE MatchCount(_, _)
\* sum of the sizes of get_matching_blocks()
MatchCount(a, b) ==
    IF Blocks(a, b) = {} THEN 0
    ELSE LET t == LongestMatch(a, b)
         IN  t[3]
             + MatchCount(SubSeq(a, 1, t[1] - 1), SubSeq(b, 1, t[2] - 1))
             + MatchCount(SubSeq(a, t[1] + t[3], Len(a)),
                          SubSeq(b, t[2] + t[3], Len(b)))

\* ratio() >= cutoff, with ratio() = 2.0 * matches / (len(a) + len(b))
RatioAtLeastCutoff(a, b) ==
    LET total == Len(a) + Len(b)
    IN  IF total = 0 THEN TRUE
        ELSE CutoffDen * 2 * MatchCount(a, b) >= CutoffNum * total

\* bool(get_close_matches(word, possibilities, n=1, cutoff=0.6))
get_close_matches(word, possibilities) ==
    \E i \in 1..Len(possibilities) : RatioAtLeastCutoff(possibilities[i], word)

----------------------------------------------------------------------------
(* search_blogger_posts *)

Has(f, k) == k \in DOMAIN f

\* post.get("labels", []) lower-cased and stripped
post_labels(post) ==
    IF Has(post, "labels")
    THEN [i \in 1..Len(post.labels) |-> Strip(Lower(post.labels[i]))]
    ELSE <<>>

\* the condition of line 50
IsMatch(kw, post) ==
    \/ Contains(kw, Join(post_labels(post)))
    \/ get_close_matches(kw, post_labels(post))

RECURSIVE Matched(_, _)
\* matched_posts of lines 47-51
Matched(kw, all_posts) ==
    IF all_posts = <<>> THEN <<>>
    ELSE (IF IsMatch(kw, Head(all_posts)) THEN <<Head(all_posts)>> ELSE <<>>)
         \o Matched(kw, Tail(all_posts))

\* d[post['url']] = post, with d kept in insertion order: a later post with a
\* known url takes the place of the earlier one, a new url goes to the end
DictPutFirstWins(d, post) ==
    IF \E i \in 1..Len(d) : d[i].url = post.url THEN d ELSE Append(d, post)

DictPut(d, post) ==
    IF \E i \in 1..Len(d) : d[i].url = post.url
    THEN [i \in 1..Len(d) |-> IF d[i].url = post.url THEN post ELSE d[i]]
    ELSE Append(d, post)

RECURSIVE DictOf(_, _)
\* {post['url']: post for post in matched_posts}, built left to right
DictOf(d, matched_posts) ==
    IF matched_posts = <<>> THEN d
    ELSE DictOf(DictPut(d, Head(matched_posts)), Tail(matched_posts))

\* the outcome of a call: a returned value, or an exception with its str()
Returned(v) == [raised |-> FALSE, exc |-> "", msg |-> "", value |-> v]
Raised(e, m) == [raised |-> TRUE, exc |-> e, msg |-> m, value |-> <<>>]

\* response.get("items", [])
ItemsOf(body) == IF Has(body, "items") THEN body.items ELSE <<>>

\* lines 36-41 and 56-58; resp is what requests.get(url) meets
SearchExactUncaught(resp) ==
    IF resp.transport # "ok" THEN Raised("Timeout", "timed out")
    ELSE IF Has(resp.body, "error")
         THEN Raised("ValueError",
                     IF Has(resp.body.error, "message")
                     THEN resp.body.error.message ELSE "Blogger API Error")
    ELSE Returned(ItemsOf(resp.body))

SearchExact(resp) ==
    IF resp.transport # "ok" THEN Returned(<<>>)
    ELSE IF Has(resp.body, "error")
         THEN Raised("ValueError",
                     IF Has(resp.body.error, "message")
                     THEN resp.body.error.message ELSE "Blogger API Error")
    ELSE Returned(ItemsOf(resp.body))

\* lines 43-54 and 56-58
SearchFuzzyNoDedup(kw, resp) ==
    IF resp.transport # "ok" THEN Returned(<<>>)
    ELSE LET matched_posts == Matched(kw, ItemsOf(resp.body))
         IN  IF \E i \in 1..Len(matched_posts) : ~Has(matched_posts[i], "url")
             THEN Raised("KeyError", "'url'")
             ELSE Returned(matched_posts)

SearchFuzzy(kw, resp) ==
    IF resp.transport # "ok" THEN Returned(<<>>)
    ELSE LET matched_posts == Matched(kw, ItemsOf(resp.body))
         IN  IF \E i \in 1..Len(matched_posts) : ~Has(matched_posts[i], "url")
             THEN Raised("KeyError", "'url'")
             ELSE Returned(DictOf(<<>>, matched_posts))


\* search_blogger_posts(keyword, exact_match) when the remote answers resp
search_blogger_posts(kw, exact_match, resp) ==
    IF exact_match THEN SearchExact(resp) ELSE SearchFuzzy(kw, resp)

----------------------------------------------------------------------------
(* JSON values of the inbound body *)

JNull == [t |-> "null"]
JNum(n) == [t |-> "num", n |-> n]
JStr(s) == [t |-> "str", s |-> s]
JObj(o) == [t |-> "obj", o |-> o]
NoKeys == [k \in {} |-> JNull]
Unparseable == [t |-> "unparseable"]   \* a body that is not JSON

\* Python truth value
Truthy(v) ==
    CASE v.t = "null" -> FALSE
      [] v.t = "num" -> v.n # 0
      [] v.t = "str" -> v.s # <<>>
      [] v.t = "obj" -> DOMAIN v.o # {}

----------------------------------------------------------------------------
(* Message texts *)

Prompt == [kind |-> "prompt"]
NoMatches == [kind |-> "nomatch"]
Header(mode, n) == [kind |-> "header", mode |-> mode, n |-> n]
ItemText(post) == [kind |-> "item", title |-> post.title, url |-> post.url]
ErrorText(m) == [kind |-> "error", msg |-> m]

\* the arguments of one send_to_telegram call
Msg(cid, text) == [chat_id |-> cid, text |-> text]

----------------------------------------------------------------------------
(* webhook_handler, lines 64-75: from the body to the keyword *)

Outcome(kind, exc, m, known, cid, kw) ==
    [kind |-> kind, exc |-> exc, msg |-> m, known |-> known, cid |-> cid,
     kw |-> kw]

Throw(exc, m, known, cid) == Outcome("raise", exc, m, known, cid, <<>>)

Prologue(u) ==
    IF u.t = "unparseable"
    THEN Throw("BadRequest", "400 Bad Request", FALSE, JNull)
    ELSE IF u.t # "obj"
    THEN Throw("AttributeError", "no attribute 'get'", FALSE, JNull)
    ELSE LET message == IF Has(u.o, "message") THEN u.o.message ELSE u
         IN  IF ~Truthy(message)
             THEN Outcome("invalid", "", "", FALSE, JNull, <<>>)
             ELSE IF message.t = "num"
             THEN Throw("TypeError", "not iterable", FALSE, JNull)
             ELSE IF message.t = "str"
             THEN IF Contains(<<"c", "h", "a", "t">>, message.s)
                  THEN Throw("TypeError", "string indices", FALSE, JNull)
                  ELSE Outcome("invalid", "", "", FALSE, JNull, <<>>)
             ELSE IF ~Has(message.o, "chat")
             THEN Outcome("invalid", "", "", FALSE, JNull, <<>>)
             ELSE IF message.o.chat.t # "obj"
             THEN Throw("TypeError", "not subscriptable", FALSE, JNull)
             ELSE IF ~Has(message.o.chat.o, "id")
             THEN Throw("KeyError", "'id'", FALSE, JNull)
             ELSE LET cid == message.o.chat.o.id
                      text == IF Has(message.o, "text") THEN message.o.text
                              ELSE JStr(<<>>)
                  IN  IF text.t # "str"
                      THEN Throw("AttributeError", "no attribute 'strip'",
                                 TRUE, cid)
                      ELSE LET kw == Lower(Strip(text.s))
                           IN  IF kw = <<>>
                               THEN Outcome("prompt", "", "", TRUE, cid, kw)
                               ELSE Outcome("search", "", "", TRUE, cid, kw)

----------------------------------------------------------------------------
(* webhook_handler, the pieces the steps below are made of *)

Min(a, b) == IF a < b THEN a ELSE b

\* posts[:5]
SliceAll(ps) == ps

Slice(ps) == SubSeq(ps, 1, Min(Len(ps), MaxResults))

\* the post of iteration i + 1 of `for post in posts[:5]`
LoopPostReversed(ps, i) == Slice(ps)[Len(Slice(ps)) - i]

LoopPost(ps, i) == Slice(ps)[i + 1]

\* lines 83-86: what the chat is told after the fuzzy search
FuzzyReplyAlwaysHeader(ps) == Header("related", Len(ps))

FuzzyReply(ps) ==
    IF ps # <<>> THEN Header("related", Len(ps)) ELSE NoMatches

\* lines 100-101: the calls the except block makes
ErrorNoticeNever(known, cid, m) == <<>>

ErrorNotice(known, cid, m) ==
    IF known THEN <<Msg(cid, ErrorText(m))>> ELSE <<>>

\* lines 97-102: the except block, entered with the exception's str()
Except(known, cid, m, ok) ==
    /\ sent' = sent \o ErrorNotice(known, cid, m)
    /\ lastOk' = IF ErrorNotice(known, cid, m) # <<>> THEN ok ELSE lastOk
    /\ status' = 500
    /\ pc' = "done"

\* one send_to_telegram call that returns ok
Send(cid, text, ok) ==
    /\ sent' = Append(sent, Msg(cid, text))
    /\ lastOk' = ok

----------------------------------------------------------------------------
(* Inputs: inbound bodies *)

Chat(c) == JObj([id |-> JNum(c)])

Texts ==
    {JStr(<<" ">>), JStr(<<"a">>), JStr(<<" ", "A", "b">>), JNum(7)}

Updates ==
    {JNull, Unparseable, JObj(NoKeys),
     JObj([message |-> JNull]),
     JObj([message |-> JObj(NoKeys)]),
     JObj([message |-> JNum(7)]),
     JObj([message |-> JObj([text |-> JStr(<<"a">>)])]),
     JObj([message |-> JObj([chat |-> JObj(NoKeys), text |-> JStr(<<"a">>)])]),
     JObj([message |-> JObj([chat |-> Chat(1)])])}
    \cup {JObj([message |-> JObj([chat |-> Chat(1), text |-> t])]) : t \in Texts}
    \cup {JObj([chat |-> Chat(2), text |-> t]) :
             t \in {JStr(<<"a">>), JStr(<<"a", "b">>)}}

(* Inputs: what the remote content API answers *)

PostA == [title |-> "A", url |-> 1, labels |-> << <<"a">> >>]
PostB == [title |-> "B", url |-> 1, labels |-> << <<" ", "A", "b">> >>]
PostC == [title |-> "C", url |-> 2, labels |-> << <<"b", "b">> >>]
PostNoTitle == [url |-> 2, labels |-> << <<"a">>, <<"b">> >>]
PostNoUrl == [title |-> "E", labels |-> << <<"a", "b">> >>]
PostNoLabels == [title |-> "G", url |-> 3]

Posts == {PostA, PostB, PostC, PostNoTitle, PostNoUrl}

\* well-formed posts with urls of their own, all carrying the label "ab"
Filler(i) == [title |-> "F", url |-> 10 + i, labels |-> << <<"a", "b">> >>]

Pad(k) == [i \in 1..k |-> Filler(i)]

SeqsUpTo(S, n) == UNION {[1..k -> S] : k \in 0..n}

ItemLists == {h \o Pad(k) : h \in SeqsUpTo(Posts, MaxHead), k \in {0, MaxPad}}

Timeout == [transport |-> "timeout"]
Ok(body) == [transport |-> "ok", body |-> body]

ResponsesOver(lists) ==
    {Timeout, Ok(NoKeys), Ok([error |-> [message |-> "quota"]]),
     Ok([error |-> NoKeys])}
    \cup {Ok([items |-> l]) : l \in lists}

Responses == ResponsesOver(ItemLists)

\* The remote content does not change during a behaviour: each of the two
\* queries is answered freely the first time and the same way from then on.
\* The answer to the label query:
ExactAnswers == IF exactMemo # <<>> THEN {exactMemo[1]} ELSE Responses

\* the answer to the all-posts query:
AllAnswers == IF allMemo # <<>> THEN {allMemo[1]} ELSE Responses

(* Inputs: direct calls of search_blogger_posts *)

Keywords == {<<"a">>, <<"a", "b">>}

CallPosts == Posts \cup {PostNoLabels}

CallResponses == ResponsesOver(SeqsUpTo(CallPosts, MaxCallItems))

NoCall ==
    [kw |-> <<>>, exact_match |-> FALSE, resp |-> Timeout, done |-> FALSE,
     out |-> Returned(<<>>)]

----------------------------------------------------------------------------
(* The handler, one action per stretch of code between two remote calls *)

Init ==
    /\ pc = "idle"
    /\ update = JNull
    /\ chat_known = FALSE
    /\ chat_id = JNull
    /\ keyword = <<>>
    /\ posts = <<>>
    /\ idx = 0
    /\ sent = <<>>
    /\ lastOk = TRUE
    /\ searches = <<>>
    /\ status = 0
    /\ exactMemo = <<>>
    /\ allMemo = <<>>
    /\ prev = <<>>
    /\ inv = 0
    /\ call = NoCall

\* a POST to /webhook arrives; the invocation starts with fresh locals
Receive(u) ==
    /\ pc \in {"idle", "done"}
    /\ inv < MaxInvocations
    /\ inv' = inv + 1
    /\ prev' = IF pc = "done"
               THEN <<[update |-> update, sent |-> sent, status |-> status]>>
               ELSE prev
    /\ update' = u
    /\ pc' = "parse"
    /\ chat_known' = FALSE
    /\ chat_id' = JNull
    /\ keyword' = <<>>
    /\ posts' = <<>>
    /\ idx' = 0
    /\ sent' = <<>>
    /\ searches' = <<>>
    /\ status' = 0
    /\ UNCHANGED <<lastOk, exactMemo, allMemo, call>>

\* lines 64-75
Parse ==
    /\ pc = "parse"
    /\ LET r == Prologue(update)
       IN  /\ chat_known' = r.known
           /\ chat_id' = r.cid
           /\ keyword' = r.kw
           /\ \E ok \in BOOLEAN :
                CASE r.kind = "raise" -> Except(r.known, r.cid, r.msg, ok)
                  [] r.kind = "invalid" ->
                        /\ status' = 400
                        /\ pc' = "done"
                        /\ UNCHANGED <<sent, lastOk>>
                  [] r.kind = "prompt" ->
                        /\ Send(r.cid, Prompt, ok)
                        /\ status' = 200
                        /\ pc' = "done"
                  [] r.kind = "search" ->
                        /\ pc' = "exact"
                        /\ UNCHANGED <<sent, lastOk, status>>
    /\ UNCHANGED <<update, posts, idx, searches, exactMemo, allMemo, prev, inv,
                   call>>

SearchRecord(exact_match, resp, r) ==
    [exact_match |-> exact_match, resp |-> resp, out |-> r]

\* lines 78-81 and 88-89
ExactSearch ==
    /\ pc = "exact"
    /\ \E resp \in ExactAnswers, ok \in BOOLEAN :
         LET r == search_blogger_posts(keyword, TRUE, resp)
         IN  /\ exactMemo' = <<resp>>
             /\ searches' = Append(searches, SearchRecord(TRUE, resp, r))
             /\ IF r.raised
                THEN /\ Except(chat_known, chat_id, r.msg, ok)
                     /\ UNCHANGED posts
                ELSE /\ posts' = r.value
                     /\ status' = status
                     /\ IF r.value # <<>>
                        THEN /\ Send(chat_id, Header("exact", Len(r.value)), ok)
                             /\ pc' = "deliver"
                        ELSE /\ pc' = "fuzzy"
                             /\ UNCHANGED <<sent, lastOk>>
    /\ UNCHANGED <<update, chat_known, chat_id, keyword, idx, allMemo, prev,
                   inv, call>>

\* lines 82-87
FuzzySearch ==
    /\ pc = "fuzzy"
    /\ \E resp \in AllAnswers, ok \in BOOLEAN :
         LET r == search_blogger_posts(keyword, FALSE, resp)
         IN  /\ allMemo' = <<resp>>
             /\ searches' = Append(searches, SearchRecord(FALSE, resp, r))
             /\ IF r.raised
                THEN /\ Except(chat_known, chat_id, r.msg, ok)
                     /\ UNCHANGED posts
                ELSE /\ posts' = r.value
                     /\ Send(chat_id, FuzzyReply(r.value), ok)
                     /\ IF r.value # <<>>
                        THEN pc' = "deliver" /\ status' = status
                        ELSE pc' = "done" /\ status' = 200
    /\ UNCHANGED <<update, chat_known, chat_id, keyword, idx, exactMemo, prev,
                   inv, call>>

\* lines 92-93: one iteration of the delivery loop
Deliver ==
    /\ pc = "deliver"
    /\ idx < Len(Slice(posts))
    /\ \E ok \in BOOLEAN :
         LET post == LoopPost(posts, idx)
         IN  IF ~Has(post, "title")
             THEN Except(chat_known, chat_id, "'title'", ok) /\ idx' = idx
             ELSE IF ~Has(post, "url")
             THEN Except(chat_known, chat_id, "'url'", ok) /\ idx' = idx
             ELSE /\ Send(chat_id, ItemText(post), ok)
                  /\ idx' = idx + 1
                  /\ UNCHANGED <<pc, status>>
    /\ UNCHANGED <<update, chat_known, chat_id, keyword, posts, searches,
                   exactMemo, allMemo, prev, inv, call>>

\* line 95, reached when the loop is over
ReturnOnSendFailure ==
    /\ pc = "deliver"
    /\ idx >= Len(Slice(posts)) \/ ~lastOk
    /\ status' = 200
    /\ pc' = "done"
    /\ UNCHANGED <<update, chat_known, chat_id, keyword, posts, idx, sent,
                   lastOk, searches, exactMemo, allMemo, prev, inv, call>>

Return ==
    /\ pc = "deliver"
    /\ idx >= Len(Slice(posts))
    /\ status' = 200
    /\ pc' = "done"
    /\ UNCHANGED <<update, chat_known, chat_id, keyword, posts, idx, sent,
                   lastOk, searches, exactMemo, allMemo, prev, inv, call>>

Next ==
    \/ \E u \in Updates : Receive(u)
    \/ Parse
    \/ ExactSearch
    \/ FuzzySearch
    \/ Deliver
    \/ Return

Spec == Init /\ [][Next]_vars

----------------------------------------------------------------------------
(* search_blogger_posts called on its own *)

InitSearch ==
    /\ pc = "idle"
    /\ update = JNull
    /\ chat_known = FALSE
    /\ chat_id = JNull
    /\ keyword = <<>>
    /\ posts = <<>>
    /\ idx = 0
    /\ sent = <<>>
    /\ lastOk = TRUE
    /\ searches = <<>>
    /\ status = 0
    /\ exactMemo = <<>>
    /\ allMemo = <<>>
    /\ prev = <<>>
    /\ inv = 0
    /\ call \in [kw : Keywords, exact_match : BOOLEAN, resp : CallResponses,
                 done : {FALSE}, out : {Returned(<<>>)}]

CallSearch ==
    /\ ~call.done
    /\ call' = [call EXCEPT !.done = TRUE,
                  !.out = search_blogger_posts(call.kw, call.exact_match,
                                               call.resp)]
    /\ UNCHANGED <<pc, update, chat_known, chat_id, keyword, posts, idx, sent,
                   lastOk, searches, status, exactMemo, allMemo, prev, inv>>

NextSearch == CallSearch

SpecSearch == InitSearch /\ [][NextSearch]_vars

----------------------------------------------------------------------------
(* Vocabulary of the properties *)

IsItem(m) == m.text.kind = "item"
IsHeader(m) == m.text.kind = "header"
IsError(m) == m.text.kind = "error"

ItemsSent == SelectSeq(sent, IsItem)
HeadersSent == SelectSeq(sent, IsHeader)
ErrorsSent == SelectSeq(sent, IsError)

\* the value the latest search call returned
LastFound == searches[Len(searches)].out.value

HasErrorPayload(resp) == resp.transport = "ok" /\ Has(resp.body, "error")

\* the message object the handler looks at, for a body that is an object
MessageOf(u) == IF Has(u.o, "message") THEN u.o.message ELSE u

\* a body without chat context: null, an empty object, a null or empty
\* nested message, a message object without a "chat" key
NoChatContext(u) ==
    \/ u.t = "null"
    \/ /\ u.t = "obj"
       /\ \/ MessageOf(u).t = "null"
          \/ MessageOf(u).t = "obj" /\ ~Has(MessageOf(u).o, "chat")

\* a body whose message has a chat id and a text that is not a string
NonStringText(u) ==
    /\ u.t = "obj"
    /\ MessageOf(u).t = "obj"
    /\ Has(MessageOf(u).o, "chat")
    /\ MessageOf(u).o.chat.t = "obj"
    /\ Has(MessageOf(u).o.chat.o, "id")
    /\ Has(MessageOf(u).o, "text")
    /\ MessageOf(u).o.text.t # "str"

NoRepeatedUrl(items) ==
    \A i, j \in 1..Len(items) : i # j => items[i].url # items[j].url

----------------------------------------------------------------------------
(* C1 *)

\* C1: when the remote answers the exact search with a successful response
\* whose body carries an "error" field, the search returns an empty sequence
\* without raising and the handler goes on to the fuzzy search.
C1_ErrorPayloadIsEmptyResult ==
    \A i \in 1..Len(searches) :
        (searches[i].exact_match /\ HasErrorPayload(searches[i].resp)) =>
            /\ ~searches[i].out.raised
            /\ searches[i].out.value = <<>>
            /\ (pc = "done" => Len(searches) = 2 /\ ~searches[2].exact_match)

----------------------------------------------------------------------------
(* C2 *)

\* C2: every body without chat context, a null body included, is answered
\* with 400 and causes no send_to_telegram call and no search call.
C2_NoChatContextIs400 ==
    (pc = "done" /\ NoChatContext(update)) =>
        status = 400 /\ sent = <<>> /\ searches = <<>>

----------------------------------------------------------------------------
(* C3 *)

\* C3: an invocation never sends more than 5 item notifications, whatever
\* the search returned and whatever failed; an invocation that ends without
\* a failure after a search returned N > 0 items has sent min(N, 5) of them
\* and a header that reports N.
C3_AtMostFiveItems ==
    /\ Len(ItemsSent) <= 5
    /\ (pc = "done" /\ status = 200 /\ searches # <<>> /\ LastFound # <<>>) =>
          /\ Len(ItemsSent) = Min(Len(LastFound), 5)
          /\ Len(HeadersSent) = 1
          /\ HeadersSent[1].text.n = Len(LastFound)

C3_Witness ==
    /\ pc = "done"
    /\ status = 200
    /\ searches # <<>>
    /\ Len(LastFound) > 5
    /\ Len(ItemsSent) = 5

----------------------------------------------------------------------------
(* C4 *)

\* C4 as stated: in no invocation are two item notifications sent for items
\* with the same url, whichever search mode produced the items.
C4_NoRepeatedUrlDelivered ==
    NoRepeatedUrl([i \in 1..Len(ItemsSent) |-> ItemsSent[i].text])

\* C4 amended: the sequence a fuzzy search returns has no two items with the
\* same url, and an invocation that delivers the items of a fuzzy search
\* sends no two item notifications with the same url.
C4_FuzzyDeliveryDeduplicated ==
    Len(searches) = 2 =>
        /\ NoRepeatedUrl(searches[2].out.value)
        /\ NoRepeatedUrl([i \in 1..Len(ItemsSent) |-> ItemsSent[i].text])

\* items of a fuzzy search were delivered although two of the matched posts
\* of the fetched collection share a url
C4_Witness ==
    /\ pc = "done"
    /\ status = 200
    /\ Len(searches) = 2
    /\ Len(ItemsSent) >= 2
    /\ searches[2].resp.transport = "ok"
    /\ ~NoRepeatedUrl(Matched(keyword, ItemsOf(searches[2].resp.body)))

----------------------------------------------------------------------------
(* C5 *)

FirstIndex(ms, u) ==
    CHOOSE k \in 1..Len(ms) :
        ms[k].url = u /\ \A l \in 1..Len(ms) : ms[l].url = u => k <= l

LastIndex(ms, u) ==
    CHOOSE k \in 1..Len(ms) :
        ms[k].url = u /\ \A l \in 1..Len(ms) : ms[l].url = u => l <= k

\* C5: a fuzzy search that returns holds exactly one item per url of the
\* matched posts; the item kept for a url is the last matched post with that
\* url, and it stands where that url was matched first.
C5_FuzzyDedupLastWinsFirstPosition ==
    (call.done /\ ~call.exact_match /\ ~call.out.raised
        /\ call.resp.transport = "ok") =>
        LET ms == Matched(call.kw, ItemsOf(call.resp.body))
            res == call.out.value
        IN  /\ NoRepeatedUrl(res)
            /\ {res[i].url : i \in 1..Len(res)} = {ms[k].url : k \in 1..Len(ms)}
            /\ \A i \in 1..Len(res) : res[i] = ms[LastIndex(ms, res[i].url)]
            /\ \A i, j \in 1..Len(res) :
                 i < j => FirstIndex(ms, res[i].url) < FirstIndex(ms, res[j].url)

\* a url matched first, another url next, then the first url again on a
\* different post
C5_Witness ==
    /\ call.done
    /\ ~call.exact_match
    /\ ~call.out.raised
    /\ call.resp.transport = "ok"
    /\ LET ms == Matched(call.kw, ItemsOf(call.resp.body))
       IN  /\ Len(ms) = 3
           /\ ms[1].url = ms[3].url
           /\ ms[1] # ms[3]
           /\ ms[2].url # ms[1].url
           /\ Len(call.out.value) = 2

----------------------------------------------------------------------------
(* C6 *)

\* C6: an exact search that meets a transport failure returns an empty
\* sequence without raising and the fuzzy search comes next; the fuzzy search
\* is only ever the second search of an invocation, after an exact search
\* that returned no item.
C6_FuzzyOnlyAfterEmptyExact ==
    /\ Len(searches) <= 2
    /\ Len(searches) >= 1 =>
          /\ searches[1].exact_match
          /\ searches[1].resp.transport # "ok" =>
                /\ ~searches[1].out.raised
                /\ searches[1].out.value = <<>>
                /\ pc = "fuzzy" \/ Len(searches) = 2
    /\ Len(searches) = 2 =>
          /\ ~searches[2].exact_match
          /\ ~searches[1].out.raised
          /\ searches[1].out.value = <<>>
    /\ pc = "fuzzy" => Len(searches) = 1

C6_Witness ==
    /\ pc = "done"
    /\ Len(searches) = 2
    /\ searches[1].resp.transport = "timeout"
    /\ Len(ItemsSent) >= 1

----------------------------------------------------------------------------
(* C7 *)

\* a post of the delivery window lacks title or url
BrokenPostDelivered ==
    \E i \in 1..Min(Len(posts), 5) :
        ~Has(posts[i], "title") \/ ~Has(posts[i], "url")

\* C7: a failure inside the handler ends the invocation with status 500; an
\* error notification is never sent twice, is the last call of the
\* invocation and goes to the resolved chat; an invocation that ended with
\* 500 sent it if and only if chat_id was resolved, and made no call at all
\* if chat_id was not resolved.
C7_ErrorNoticeIffChatKnown ==
    /\ Len(ErrorsSent) <= 1
    /\ Len(ErrorsSent) = 1 =>
          /\ IsError(sent[Len(sent)])
          /\ sent[Len(sent)].chat_id = chat_id
          /\ pc = "done" /\ status = 500
    /\ (pc = "done" /\ status = 500) =>
          /\ chat_known <=> Len(ErrorsSent) = 1
          /\ ~chat_known => sent = <<>>
    /\ (pc = "done" /\ update = Unparseable) => status = 500
    /\ (pc = "done" /\ NonStringText(update)) => status = 500
    /\ (pc = "done" /\ BrokenPostDelivered) => status = 500
    /\ \A i \in 1..Len(searches) : searches[i].out.raised => status = 500

\* a post without title is met after the header and one item went out
C7_Witness ==
    /\ pc = "done"
    /\ status = 500
    /\ chat_known
    /\ Len(sent) >= 3
    /\ IsHeader(sent[1])
    /\ IsItem(sent[2])
    /\ IsError(sent[Len(sent)])

----------------------------------------------------------------------------
(* C8 *)

\* C8: when the exact search and the fuzzy search both return no item, the
\* invocation makes one send_to_telegram call, the "no matches" message, and
\* answers 200.
C8_NoMatchesOnce ==
    (/\ pc = "done"
     /\ Len(searches) = 2
     /\ ~searches[1].out.raised /\ searches[1].out.value = <<>>
     /\ ~searches[2].out.raised /\ searches[2].out.value = <<>>) =>
        /\ sent = <<Msg(chat_id, NoMatches)>>
        /\ status = 200

\* the fetched collection has posts, none of which matches the keyword
C8_Witness ==
    /\ pc = "done"
    /\ Len(searches) = 2
    /\ searches[2].resp.transport = "ok"
    /\ ItemsOf(searches[2].resp.body) # <<>>
    /\ ~searches[2].out.raised
    /\ searches[2].out.value = <<>>
    /\ Len(sent) = 1

----------------------------------------------------------------------------
(* C9 *)

\* C9: an invocation that sends item notifications has sent exactly one
\* header, as its first call; the item notifications are the first items of
\* the sequence the search returned, in that order, and all of its first 5
\* once the invocation ended with 200, whatever send_to_telegram returned.
C9_HeaderFirstItemsInOrder ==
    ItemsSent # <<>> =>
        /\ IsHeader(sent[1])
        /\ Len(HeadersSent) = 1
        /\ Len(ItemsSent) <= Len(LastFound)
        /\ \A i \in 1..Len(ItemsSent) :
             /\ IsItem(sent[i + 1])
             /\ Has(LastFound[i], "title") /\ Has(LastFound[i], "url")
             /\ sent[i + 1] = Msg(chat_id, ItemText(LastFound[i]))
        /\ (pc = "done" /\ status = 200) =>
             Len(ItemsSent) = Min(Len(LastFound), 5)

\* two different items went out in order although the last call failed
C9_Witness ==
    /\ pc = "done"
    /\ status = 200
    /\ ~lastOk
    /\ Len(ItemsSent) >= 2
    /\ ItemsSent[1] # ItemsSent[2]

----------------------------------------------------------------------------
(* C10 *)

\* C10: an invocation with the same body as the invocation before it, against
\* the same remote answers, ends with the same sequence of send_to_telegram
\* calls and the same status.
C10_SameBodySameCalls ==
    (pc = "done" /\ prev # <<>> /\ prev[1].update = update) =>
        /\ sent = prev[1].sent
        /\ status = prev[1].status

\* the repeated invocation delivered items and its last call failed
C10_Witness ==
    /\ pc = "done"
    /\ prev # <<>>
    /\ prev[1].update = update
    /\ Len(ItemsSent) >= 2
    /\ ~lastOk

====
